---- MODULE Spec2Model ----
(***************************************************************************)
(* Model of the image -> ASCII-art -> SVG pipeline of lib/process.go.       *)
(*                                                                         *)
(* Representation choices                                                  *)
(*   - a Go string is a sequence of one-character strings;                 *)
(*   - a byte slice, and a string the code only measures, is its length;   *)
(*   - a float64 option is a pair <<num, den>> with den a power of two, so *)
(*     that the value is exactly a float64 and products with 16-bit        *)
(*     integers are exact;                                                 *)
(*   - a colour is the 16-bit quadruple its RGBA() method returns;         *)
(*   - an image is its bounds (w, h) and a bounded sample of its pixels.   *)
(***************************************************************************)
EXTENDS Integers, Sequences, FiniteSets, TLC

VARIABLES
    pc,            \* the statement of ProcessImageToSVG about to run
    imageData,     \* len(imageData)
    opts,          \* the Options record
    img,           \* decodeImage's image
    processedImg,  \* processImage's image
    options,       \* the convert.Options of convertToASCII
    asciiString,   \* len(asciiString)
    styledText,    \* parseANSI's blocks
    lines,         \* renderToSVG's lines
    canvas,        \* the document written to the buffer
    svgString,     \* len(svgString)
    ret,           \* what ProcessImageToSVG returned
    executed,      \* the stages entered so far, in order
    bufferPool,    \* the buffers bufferPool holds
    buffers,       \* each bytes.Buffer: whether it exists, and len of its content
    runs           \* each goroutine's call of renderToSVG

vars == <<pc, imageData, opts, img, processedImg, options, asciiString,
          styledText, lines, canvas, svgString, ret, executed,
          bufferPool, buffers, runs>>
poolVars == <<bufferPool, buffers, runs>>
pipelineVars == <<pc, imageData, opts, img, processedImg, options, asciiString,
                  styledText, lines, canvas, svgString, ret, executed>>

(***************************************************************************)
(* Program constants.                                                      *)
(***************************************************************************)
MaxImageSize == 50 * 1024 * 1024
MaxOutputSize == 10 * 1024 * 1024
MaxASCIIChars == 5000000
MaxASCIIDimension == 500
maxProcessDimension == 1024
maxStyledElements == 100000
lineHeight == 16
charWidth == 16
fontSize == 16
paddingTop == -2
paddingBottom == 2
paddingLeft == 1
paddingRight == -6
FullAlpha == 65535

(***************************************************************************)
(* Bounds of the model.                                                    *)
(***************************************************************************)
MaxPixels == 2
MaxBlocks == 2
MaxLabelLen == 2
MaxChars == 4
MaxRuns == 2

(***************************************************************************)
(* Small helpers.                                                          *)
(***************************************************************************)
Max2(a, b) == IF a > b THEN a ELSE b

RECURSIVE Pow2(_)
Pow2(n) == IF n = 0 THEN 1 ELSE 2 * Pow2(n - 1)

\* 2^s * n modulo m, eight doublings at a time (m < 2^23).
RECURSIVE ShiftMod(_, _, _)
ShiftMod(n, s, m) ==
    IF s = 0 THEN n % m
    ELSE IF s >= 8 THEN ShiftMod((256 * (n % m)) % m, s - 8, m)
    ELSE ShiftMod((2 * (n % m)) % m, s - 1, m)

\* Largest e >= 0 with 2^e * d <= n (n >= d > 0).
RECURSIVE Log2Up(_, _)
Log2Up(n, d) == IF n < 2 * d THEN 0 ELSE 1 + Log2Up(n, 2 * d)

\* Smallest j >= 0 with 2^j * n >= d (0 < n).
RECURSIVE Log2Down(_, _)
Log2Down(n, d) == IF n >= d THEN 0 ELSE 1 + Log2Down(2 * n, d)

SeqsUpTo(S, n) == UNION {[1..k -> S] : k \in 0..n}

RECURSIVE SumSeq(_)
SumSeq(s) == IF s = <<>> THEN 0 ELSE Head(s) + SumSeq(Tail(s))

RECURSIVE Flatten(_)
Flatten(ss) == IF ss = <<>> THEN <<>> ELSE Head(ss) \o Flatten(Tail(ss))

(***************************************************************************)
(* int(float64(k) * (float64(n) / float64(d))) for positive integers.      *)
(*                                                                         *)
(* When d does not divide k*n the two float64 roundings are far smaller    *)
(* than the distance of k*n/d to an integer, and the truncation is the     *)
(* exact floor.  When the exact value is an integer q, the result is q     *)
(* unless the quotient n/d was rounded DOWN to its 53-bit mantissa and the *)
(* product, k times that, lies more than half a unit in the last place     *)
(* below q; then the float product is the float64 just below q, and the    *)
(* truncation is q - 1.  With e = floor(log2(n/d)), s = 52 - e and         *)
(* rem = (n * 2^s) mod d, the quotient is rounded down iff 0 < 2*rem < d   *)
(* (or 2*rem = d with an even mantissa), and the product rounds below q    *)
(* iff 2*k*rem > d * 2^t, t = floor(log2(q)) - e (4*k*rem when q is a      *)
(* power of two, where the spacing below q halves).                        *)
(***************************************************************************)
FloatMulTrunc(k, n, d) ==
    LET kn == k * n
        q  == kn \div d
    IN  IF kn % d # 0 \/ q = 0 THEN q
        ELSE LET up   == IF n >= d THEN Log2Up(n, d) ELSE 0
                 down == IF n >= d THEN 0 ELSE Log2Down(n, d)
                 s    == 52 - up + down
                 n2   == ShiftMod(n, s, 2 * d)
                 rem  == n2 % d
                 odd  == n2 >= d
                 roundedDown == rem # 0 /\ (2 * rem < d \/ (2 * rem = d /\ ~odd))
                 E    == Log2Up(q, 1)
                 t    == E - up + down
                 f    == IF q = Pow2(E) THEN 2 ELSE 1
                 \* 2^f * k * rem > d * 2^t, without leaving 32 bits
                 below == IF t >= 2 THEN (k * rem - 1) \div Pow2(t - f) >= d
                          ELSE Pow2(f) * k * rem > d * Pow2(t)
             IN  IF roundedDown /\ below THEN q - 1 ELSE q

(***************************************************************************)
(* Characters and hexadecimal parsing (strconv.ParseInt, base 16).         *)
(***************************************************************************)
HexDigits == <<"0", "1", "2", "3", "4", "5", "6", "7", "8", "9",
               "a", "b", "c", "d", "e", "f">>
UpperHex == <<"A", "B", "C", "D", "E", "F">>

IsHexDigit(c) == (\E i \in 1..16 : HexDigits[i] = c) \/ (\E i \in 1..6 : UpperHex[i] = c)

HexValue(c) ==
    IF \E i \in 1..16 : HexDigits[i] = c
    THEN (CHOOSE i \in 1..16 : HexDigits[i] = c) - 1
    ELSE (CHOOSE i \in 1..6 : UpperHex[i] = c) + 9

\* strconv.ParseInt(s, 16, 64) of a two-character string: an optional sign,
\* then hexadecimal digits only.  The result is [ok, val].
ParseInt16(s) ==
    IF s[1] = "+" \/ s[1] = "-"
    THEN IF IsHexDigit(s[2])
         THEN [ok |-> TRUE,
               val |-> IF s[1] = "-" THEN 0 - HexValue(s[2]) ELSE HexValue(s[2])]
         ELSE [ok |-> FALSE, val |-> 0]
    ELSE IF IsHexDigit(s[1]) /\ IsHexDigit(s[2])
         THEN [ok |-> TRUE, val |-> 16 * HexValue(s[1]) + HexValue(s[2])]
         ELSE [ok |-> FALSE, val |-> 0]

\* uint8(v) of an int64.
Uint8(v) == ((v % 256) + 256) % 256

TrimPrefixHash(hex) == IF Len(hex) > 0 /\ hex[1] = "#" THEN Tail(hex) ELSE hex

\* A colour as the quadruple of its RGBA() method; nil is NilColor.
NilColor == [nil |-> TRUE, r |-> 0, g |-> 0, b |-> 0, a |-> 0]
Color16(r, g, b, a) == [nil |-> FALSE, r |-> r, g |-> g, b |-> b, a |-> a]

\* color.RGBA{R, G, B, 0xFF}: RGBA() widens each 8-bit channel c to c * 0x101.
ColorRGBA8(r8, g8, b8) == Color16(r8 * 257, g8 * 257, b8 * 257, FullAlpha)

\* color.White
White == Color16(FullAlpha, FullAlpha, FullAlpha, FullAlpha)

parseHexColor(hexIn) ==
    LET h0  == TrimPrefixHash(hexIn)
        hex == IF Len(h0) = 3
               THEN <<h0[1], h0[1], h0[2], h0[2], h0[3], h0[3]>>
               ELSE h0
    IN  IF Len(hex) # 6 THEN NilColor
        ELSE LET r == ParseInt16(SubSeq(hex, 1, 2))
                 g == ParseInt16(SubSeq(hex, 3, 4))
                 b == ParseInt16(SubSeq(hex, 5, 6))
             IN  IF ~r.ok \/ ~g.ok \/ ~b.ok THEN NilColor
                 ELSE ColorRGBA8(Uint8(r.val), Uint8(g.val), Uint8(b.val))

(***************************************************************************)
(* Options (lines 35-43) and their normalisation.                          *)
(***************************************************************************)
\* validateInput with the size limit off by one.
validateInput_LimitExclusive(data, o) ==
    IF data = 0 THEN "image data is empty"
    ELSE IF data >= MaxImageSize THEN "image data is too large"
    ELSE IF o.TargetWidth <= 0 THEN "target width must be positive"
    ELSE ""

validateInput(data, o) ==
    IF data = 0 THEN "image data is empty"
    ELSE IF data > MaxImageSize THEN "image data is too large"
    ELSE IF o.TargetWidth <= 0 THEN "target width must be positive"
    ELSE ""

\* A float64 is <<num, den>>: den > 0 for a finite value, <<1, 0>> and
\* <<-1, 0>> for the infinities, <<0, 0>> for NaN.
NaN == <<0, 0>>
IsNaN(t) == t[1] = 0 /\ t[2] = 0

\* math.Max(0.0, math.Min(1.0, t)): math.Min and math.Max return NaN when
\* an argument is NaN.
ClampThreshold(t) ==
    IF IsNaN(t) THEN NaN
    ELSE IF t[1] > t[2] THEN <<1, 1>>
    ELSE IF t[1] < 0 THEN <<0, 1>>
    ELSE t

setDefaults(o) ==
    [o EXCEPT !.BackgroundColor =
                  IF @ = <<>> THEN <<"#", "0", "0", "0", "0", "0", "0">> ELSE @,
              !.TransparencyColor =
                  IF @ = <<>> THEN <<"#", "F", "F", "F", "F", "F", "F">> ELSE @,
              !.TransparencyThreshold = ClampThreshold(@)]

(***************************************************************************)
(* Transparency compositing (handleTransparency).                          *)
(***************************************************************************)
\* A pixel of the *image.RGBA result: 8 bits per channel.
Pixel8(r, g, b, a) == [R |-> r, G |-> g, B |-> b, A |-> a]

\* result.Set(x, y, c): color.RGBAModel keeps the high byte of each channel.
SetRGBA(c) == Pixel8(c.r \div 256, c.g \div 256, c.b \div 256, c.a \div 256)

\* uint32(math.Floor(threshold * 65535)), threshold in [0, 1].
alphaThreshold(threshold) ==
    IF IsNaN(threshold)
    THEN \* uint32(NaN) is implementation-dependent: 0 where the conversion
         \* saturates (wasm), 2^31 elsewhere, which is above every alpha as
         \* FullAlpha + 1 is.
         {0, FullAlpha + 1}
    ELSE {(threshold[1] * FullAlpha) \div threshold[2]}

\* floor(x * y / 65535) and (x * y) mod 65535 for 0 <= x, y <= 65535, in
\* steps that stay below 2^31.
MulDivF(x, y) ==
    LET A == x * (y \div 256)
        s == 256 * (A % FullAlpha) + x * (y % 256)
    IN  256 * (A \div FullAlpha) + s \div FullAlpha

MulModF(x, y) ==
    LET A == x * (y \div 256)
        s == 256 * (A % FullAlpha) + x * (y % 256)
    IN  s % FullAlpha

\* c * a + tc * (65535 - a), as <<S, sr>> with value S * 65535 + sr.
BlendSum(c, tc, a) ==
    LET low == MulModF(c, a) + MulModF(tc, FullAlpha - a)
    IN  <<MulDivF(c, a) + MulDivF(tc, FullAlpha - a) + low \div FullAlpha,
          low % FullAlpha>>

\* uint8(blend * 255), blend == (c/65535)*alphaFactor + (tc/65535)*(1-alphaFactor).
\* The exact value is (c*a + tc*(65535-a)) / (257 * 65535).  The float64
\* roundings are far smaller than the distance of a non-integer value to an
\* integer; at an exact integer value q > 0 they may leave the product just
\* below q, so that the conversion yields q - 1: both outcomes are kept.
BlendChannel(c, tc, a) ==
    LET X == BlendSum(c, tc, a)
        q == X[1] \div 257
    IN  IF X[2] = 0 /\ X[1] % 257 = 0 /\ q > 0 THEN {q - 1, q} ELSE {q}

\* HandlePixel with the threshold comparison made inclusive.
HandlePixel_InclusiveThreshold(p, tColor, T) ==
    IF p.a <= T THEN {SetRGBA(tColor)}
    ELSE IF p.a < FullAlpha
    THEN {Pixel8(r, g, b, 255) : r \in BlendChannel(p.r, tColor.r, p.a),
                                 g \in BlendChannel(p.g, tColor.g, p.a),
                                 b \in BlendChannel(p.b, tColor.b, p.a)}
    ELSE {SetRGBA(p)}

\* HandlePixel with the blend keeping the source alpha.
HandlePixel_BlendKeepsAlpha(p, tColor, T) ==
    IF p.a < T THEN {SetRGBA(tColor)}
    ELSE IF p.a < FullAlpha
    THEN {Pixel8(r, g, b, p.a \div 256) : r \in BlendChannel(p.r, tColor.r, p.a),
                                          g \in BlendChannel(p.g, tColor.g, p.a),
                                          b \in BlendChannel(p.b, tColor.b, p.a)}
    ELSE {SetRGBA(p)}

\* The outcomes of one pixel.
HandlePixel(p, tColor, T) ==
    IF p.a < T THEN {SetRGBA(tColor)}
    ELSE IF p.a < FullAlpha
    THEN {Pixel8(r, g, b, 255) : r \in BlendChannel(p.r, tColor.r, p.a),
                                 g \in BlendChannel(p.g, tColor.g, p.a),
                                 b \in BlendChannel(p.b, tColor.b, p.a)}
    ELSE {SetRGBA(p)}

SubstituteColor(transparencyColorStr) ==
    LET tColor == parseHexColor(transparencyColorStr)
    IN  IF tColor.nil THEN White ELSE tColor

\* The loop over the pixels (lines 322-347): the possible result images.
RECURSIVE TransparencyPixels(_, _, _)
TransparencyPixels(pix, tColor, T) ==
    IF pix = <<>> THEN {<<>>}
    ELSE {<<p>> \o rest : p \in HandlePixel(Head(pix), tColor, T),
                          rest \in TransparencyPixels(Tail(pix), tColor, T)}

\* The possible result images (pixel sequences) of handleTransparency.
handleTransparency(pix, transparencyColorStr, threshold) ==
    UNION {TransparencyPixels(pix, SubstituteColor(transparencyColorStr), T) :
             T \in alphaThreshold(threshold)}

(***************************************************************************)
(* Geometry: the downsample of processImage and the glyph-grid dimensions  *)
(* of convertToASCII.                                                      *)
(***************************************************************************)
ResizeDims(w, h) ==
    IF w > maxProcessDimension \/ h > maxProcessDimension
    THEN LET m == Max2(w, h)
         IN  [w |-> Max2(1, FloatMulTrunc(w, maxProcessDimension, m)),
              h |-> Max2(1, FloatMulTrunc(h, maxProcessDimension, m))]
    ELSE [w |-> w, h |-> h]

\* options.FixedHeight before the cap (lines 162-166).
PreCapHeight(w, h, targetWidth) == Max2(1, FloatMulTrunc(targetWidth, h, w))

\* The height cap leaving the width as it is.
CapHeight_KeepsWidth(fw, fh) ==
    IF fh > MaxASCIIDimension
    THEN [FixedWidth |-> fw, FixedHeight |-> MaxASCIIDimension]
    ELSE [FixedWidth |-> fw, FixedHeight |-> fh]

\* The two cap adjustments (lines 168-177) applied to <<FixedWidth, FixedHeight>>.
CapWidth(fw, fh) ==
    IF fw > MaxASCIIDimension
    THEN [FixedWidth |-> MaxASCIIDimension,
          FixedHeight |-> FloatMulTrunc(fh, MaxASCIIDimension, fw)]
    ELSE [FixedWidth |-> fw, FixedHeight |-> fh]

CapHeight(fw, fh) ==
    IF fh > MaxASCIIDimension
    THEN [FixedWidth |-> FloatMulTrunc(fw, MaxASCIIDimension, fh),
          FixedHeight |-> MaxASCIIDimension]
    ELSE [FixedWidth |-> fw, FixedHeight |-> fh]

ASCIIOptions(w, h, targetWidth) ==
    LET pre == PreCapHeight(w, h, targetWidth)
        c1  == CapWidth(targetWidth, pre)
        c2  == CapHeight(c1.FixedWidth, c1.FixedHeight)
    IN  [FixedWidth |-> c2.FixedWidth, FixedHeight |-> c2.FixedHeight,
         preCapHeight |-> pre]

(***************************************************************************)
(* Styled text (ansi.StyledText): a block is [nil, Label, FgCol]; FgCol is *)
(* [nil, Hex].  BgCol and Style are copied by the run extractor and read   *)
(* by no later stage; they are left out.                                   *)
(***************************************************************************)
NewLine == "\n"
Space == " "

NilCol == [nil |-> TRUE, Hex |-> <<>>]
Col(hex) == [nil |-> FALSE, Hex |-> hex]
NilBlock == [nil |-> TRUE, Label |-> <<>>, FgCol |-> NilCol]
Block(label, fg) == [nil |-> FALSE, Label |-> label, FgCol |-> fg]

\* strings.Split(s, "\n"): at least one part, one more than the newlines.
RECURSIVE SplitNewLine(_)
SplitNewLine(s) ==
    IF \A i \in 1..Len(s) : s[i] # NewLine THEN <<s>>
    ELSE LET i == CHOOSE j \in 1..Len(s) :
                      s[j] = NewLine /\ \A k \in 1..(j - 1) : s[k] # NewLine
         IN  <<SubSeq(s, 1, i - 1)>> \o SplitNewLine(SubSeq(s, i + 1, Len(s)))

\* The inner loop appending every part, the empty ones too.
RECURSIVE SplitParts_KeepsEmptyParts(_, _, _, _)
SplitParts_KeepsEmptyParts(parts, i, block, st) ==
    IF i > Len(parts) THEN st
    ELSE LET cur == Append(st.currentLine, Block(parts[i], block.FgCol))
             nxt == IF i < Len(parts)
                    THEN [lines |-> Append(st.lines, cur), currentLine |-> <<>>]
                    ELSE [lines |-> st.lines, currentLine |-> cur]
         IN  SplitParts_KeepsEmptyParts(parts, i + 1, block, nxt)

\* The inner loop ending a line only when the line holds a run.
RECURSIVE SplitParts_DropsEmptyLines(_, _, _, _)
SplitParts_DropsEmptyLines(parts, i, block, st) ==
    IF i > Len(parts) THEN st
    ELSE LET part == parts[i]
             cur  == IF part # <<>>
                     THEN Append(st.currentLine, Block(part, block.FgCol))
                     ELSE st.currentLine
             nxt  == IF i < Len(parts)
                     THEN [lines |-> IF cur # <<>> THEN Append(st.lines, cur)
                                     ELSE st.lines,
                           currentLine |-> <<>>]
                     ELSE [lines |-> st.lines, currentLine |-> cur]
         IN  SplitParts_DropsEmptyLines(parts, i + 1, block, nxt)

\* The inner loop over the parts of one block (lines 381-395), from part i;
\* st is [lines, currentLine].
RECURSIVE SplitParts(_, _, _, _)
SplitParts(parts, i, block, st) ==
    IF i > Len(parts) THEN st
    ELSE LET part == parts[i]
             cur  == IF part # <<>>
                     THEN Append(st.currentLine, Block(part, block.FgCol))
                     ELSE st.currentLine
             nxt  == IF i < Len(parts)
                     THEN [lines |-> Append(st.lines, cur), currentLine |-> <<>>]
                     ELSE [lines |-> st.lines, currentLine |-> cur]
         IN  SplitParts(parts, i + 1, block, nxt)

\* The outer loop over the blocks (lines 376-396).
RECURSIVE SplitBlocks(_, _)
SplitBlocks(blocks, st) ==
    IF blocks = <<>> THEN st
    ELSE LET block == Head(blocks)
         IN  IF block.nil THEN SplitBlocks(Tail(blocks), st)
             ELSE SplitBlocks(Tail(blocks),
                              SplitParts(SplitNewLine(block.Label), 1, block, st))

splitStyledTextByLine(blocks) ==
    LET st == SplitBlocks(blocks, [lines |-> <<>>, currentLine |-> <<>>])
    IN  IF Len(st.currentLine) > 0 THEN Append(st.lines, st.currentLine)
        ELSE st.lines

(***************************************************************************)
(* Vector renderer.                                                        *)
(***************************************************************************)
RECURSIVE LineLength(_)
LineLength(line) ==
    IF line = <<>> THEN 0 ELSE Len(Head(line).Label) + LineLength(Tail(line))

RECURSIVE MaxLineLength(_)
MaxLineLength(ls) ==
    IF ls = <<>> THEN 0
    ELSE LET currentLineLength == LineLength(Head(ls))
             maxRest == MaxLineLength(Tail(ls))
         IN  IF currentLineLength > maxRest THEN currentLineLength ELSE maxRest

\* calculateSVGDimensions without the floor of an empty canvas.
calculateSVGDimensions_NoFloor(ls) ==
    [width  |-> (MaxLineLength(ls) * charWidth) + paddingLeft + paddingRight,
     height |-> (Len(ls) * lineHeight) + paddingTop + paddingBottom]

calculateSVGDimensions(ls) ==
    LET width  == (MaxLineLength(ls) * charWidth) + paddingLeft + paddingRight
        height == (Len(ls) * lineHeight) + paddingTop + paddingBottom
    IN  [width  |-> IF width <= 0 THEN charWidth + paddingLeft + paddingRight
                    ELSE width,
         height |-> IF height <= 0 THEN lineHeight + paddingTop + paddingBottom
                    ELSE height]

\* The primitives of the document: canvas.Rect and canvas.Text.
Rect(x, y, w, h, fill) ==
    [kind |-> "rect", x |-> x, y |-> y, w |-> w, h |-> h, text |-> <<>>, fill |-> fill]
Text(x, y, text, fill) ==
    [kind |-> "text", x |-> x, y |-> y, w |-> 0, h |-> 0, text |-> text, fill |-> fill]

DefaultTextColor == <<"#", "F", "F", "F", "F", "F", "F">>

\* Whether a run advances the cursor without drawing (line 296).
IsBlankRun(label) == label = <<Space>>

\* renderLine with a single space leaving the cursor where it is.
RECURSIVE renderLine_SpaceKeepsCursor(_, _, _)
renderLine_SpaceKeepsCursor(line, yPos, currentX) ==
    IF line = <<>> THEN <<>>
    ELSE LET styledChar == Head(line)
         IN  IF styledChar.Label = <<>> \/ IsBlankRun(styledChar.Label)
             THEN renderLine_SpaceKeepsCursor(Tail(line), yPos, currentX)
             ELSE LET textColor ==
                          IF ~styledChar.FgCol.nil /\ styledChar.FgCol.Hex # <<>>
                          THEN styledChar.FgCol.Hex ELSE DefaultTextColor
                  IN  <<Text(currentX, yPos, styledChar.Label, textColor)>> \o
                      renderLine_SpaceKeepsCursor(Tail(line), yPos,
                                 currentX + Len(styledChar.Label) * charWidth)

\* renderLine: the primitives one line emits, the cursor starting at currentX.
RECURSIVE renderLine(_, _, _)
renderLine(line, yPos, currentX) ==
    IF line = <<>> THEN <<>>
    ELSE LET styledChar == Head(line)
         IN  IF styledChar.Label = <<>> THEN renderLine(Tail(line), yPos, currentX)
             ELSE IF IsBlankRun(styledChar.Label)
             THEN renderLine(Tail(line), yPos, currentX + charWidth)
             ELSE LET textColor ==
                          IF ~styledChar.FgCol.nil /\ styledChar.FgCol.Hex # <<>>
                          THEN styledChar.FgCol.Hex ELSE DefaultTextColor
                  IN  <<Text(currentX, yPos, styledChar.Label, textColor)>> \o
                      renderLine(Tail(line), yPos,
                                 currentX + Len(styledChar.Label) * charWidth)

\* The loop over the lines (lines 253-257).
RECURSIVE renderLines(_, _)
renderLines(ls, yPos) ==
    IF ls = <<>> THEN <<>>
    ELSE renderLine(Head(ls), yPos, paddingLeft) \o
         renderLines(Tail(ls), yPos + lineHeight)

\* The document renderToSVG writes for a non-nil styledText.
renderDocument(blocks, backgroundColor) ==
    LET ls  == splitStyledTextByLine(blocks)
        dim == calculateSVGDimensions(ls)
    IN  [width |-> dim.width, height |-> dim.height,
         elems |-> <<Rect(0, 0, dim.width, dim.height, backgroundColor)>> \o
                   renderLines(ls, paddingTop)]

(***************************************************************************)
(* Scratch-buffer pool (bufferPool, a sync.Pool of *bytes.Buffer).          *)
(***************************************************************************)
Runs == 1..MaxRuns
\* Every buffer is made by the New of some Get, so there are at most MaxRuns.
BufferIds == 1..MaxRuns
NoBuffer == 0
Unallocated == [allocated |-> FALSE, len |-> 0]
\* New: new(bytes.Buffer), an empty buffer.
NewBuffer == [allocated |-> TRUE, len |-> 0]
SetMin(S) == CHOOSE m \in S : \A x \in S : m <= x

\* A Get that hands out a pooled buffer and leaves it in the pool.
PoolGet_LeavesBufferPooled(pool, bufs) ==
    {<<b, pool, bufs>> : b \in pool} \cup
    LET free == {b \in BufferIds : ~bufs[b].allocated}
    IN  IF free = {} THEN {}
        ELSE {<<SetMin(free), pool, [bufs EXCEPT ![SetMin(free)] = NewBuffer]>>}

\* bufferPool.Get(): the outcomes <<buffer, pool, buffers>>.  Get removes
\* any pooled buffer, or calls New (it may do so with buffers pooled).
PoolGet(pool, bufs) ==
    {<<b, pool \ {b}, bufs>> : b \in pool} \cup
    LET free == {b \in BufferIds : ~bufs[b].allocated}
    IN  IF free = {} THEN {}
        ELSE {<<SetMin(free), pool, [bufs EXCEPT ![SetMin(free)] = NewBuffer]>>}

\* buffer.Reset()
BufferReset(bufs, b) == [bufs EXCEPT ![b].len = 0]
\* The writes of svg.New(buffer): they append to what the buffer holds.
BufferWrite(bufs, b, n) == [bufs EXCEPT ![b].len = @ + n]
\* bufferPool.Put(buffer)
PoolPut(pool, b) == pool \cup {b}

IdleRun == [pc |-> "idle", nilInput |-> FALSE, buffer |-> NoBuffer,
            gets |-> 0, puts |-> 0, deferred |-> FALSE, found |-> 0,
            written |-> 0, out |-> 0, err |-> ""]
PoolIdle ==
    /\ bufferPool = {}
    /\ buffers = [b \in BufferIds |-> Unallocated]
    /\ runs = [r \in Runs |-> IdleRun]

(***************************************************************************)
(* Values of the variables before their statement has run.                 *)
(***************************************************************************)
Image(w, h, pix) == [nil |-> FALSE, w |-> w, h |-> h, pix |-> pix]
NilImage == [nil |-> TRUE, w |-> 0, h |-> 0, pix |-> <<>>]
NoProcessed == [w |-> 0, h |-> 0, pix |-> <<>>, src |-> <<>>]
NoOptions == [FixedWidth |-> 0, FixedHeight |-> 0, preCapHeight |-> 0]
Styled(blocks) == [nil |-> FALSE, len |-> Len(blocks), blocks |-> blocks]
NilStyled == [nil |-> TRUE, len |-> 0, blocks |-> <<>>]
NoCanvas == [width |-> 0, height |-> 0, elems |-> <<>>]
NotReturned == [returned |-> FALSE, svg |-> 0, err |-> ""]

\* return "", err   and   return svgString, nil
Failure(e) == [returned |-> TRUE, svg |-> 0, err |-> e]
Success(svg) == [returned |-> TRUE, svg |-> svg, err |-> ""]

Stages == <<"validate", "decode", "transform", "glyph-sample", "run-extract",
            "render", "output-size check">>

(***************************************************************************)
(* Inputs.                                                                 *)
(***************************************************************************)
Black == <<"#", "0", "0", "0", "0", "0", "0">>
ColorStrings ==
    { <<"#", "F", "F", "F", "F", "F", "F">>, <<"#", "a", "b", "c">>,
      <<"1", "0", "2", "0", "3", "0">>, <<"#", "1", "2">>,
      <<"#", "g", "g", "g", "g", "g", "g">>, <<"#", "-", "1", "+", "2", "-", "3">> }

\* Thresholds in [0, 1], and the ones setDefaults clamps.
Thresholds == { <<0, 1>>, <<1, 4>>, <<1, 2>>, <<3, 4>>, <<1, 1>> }
RawThresholds == { <<0 - 1, 1>>, <<1, 2>>, <<3, 2>>, <<1, 0>>, <<0 - 1, 0>>, NaN }

\* Pixels as RGBA() returns them: alpha-premultiplied, 16 bits a channel.
AlphaSamples == {0, 16383, 32766, 32767, 35980, 65534, FullAlpha}
PixelSamples ==
    {Color16(a, a, a, a) : a \in AlphaSamples} \cup
    {Color16(a \div 3, 0, a \div 2, a) : a \in AlphaSamples}
PixelSeqs == SeqsUpTo(PixelSamples, MaxPixels) \ {<<>>}

\* What imaging.Resize / AdjustBrightness / AdjustContrast / Sharpen may
\* leave in a pixel: the library decides.
AdjustedSamples == {Color16(FullAlpha, 0, 0, FullAlpha), Color16(0, 0, 0, 0)}
Adjusted(pix) == [1..Len(pix) -> AdjustedSamples]

Dimensions == {1, 2, 3, 13, 49, 100, 200, 531, 1024}
TargetWidths == {1, 2, 4, 27, 100, 500, 501, 531, 1000, 1500}

\* len of what Image2ASCIIString returns, and of what the buffer holds.
ASCIILengths == {0, 1, MaxASCIIChars, MaxASCIIChars + 1}
SVGLengths == {1, MaxOutputSize, MaxOutputSize + 1}

Alphabet == {"a", Space, NewLine}
Labels == SeqsUpTo(Alphabet, MaxLabelLen)
FgCols == {NilCol, Col(<<"#", "f", "f", "0", "0", "0", "0">>)}
Blocks == {NilBlock} \cup {Block(l, c) : l \in Labels, c \in FgCols}
\* The streams of at most MaxBlocks blocks holding at most MaxChars characters.
Characters(bs) == SumSeq([k \in 1..Len(bs) |-> Len(bs[k].Label)])
\* Streams with a foreground colour whose Hex is empty.
EmptyHexTexts ==
    { Styled(<<Block(<<"a">>, Col(<<>>))>>),
      Styled(<<Block(<<Space>>, Col(<<>>)), Block(<<"a", NewLine>>, Col(<<>>))>>) }
StyledTexts ==
    {Styled(bs) : bs \in {x \in SeqsUpTo(Blocks, MaxBlocks) : Characters(x) <= MaxChars}}
    \cup EmptyHexTexts

\* What image.Decode and ansi.Parse may hand to the pipeline.
DecodedImages ==
    { Image(200, 100, <<Color16(FullAlpha, 0, 0, FullAlpha)>>),
      Image(1, 1024, <<Color16(0, 0, 0, 0)>>),
      Image(4096, 2, <<Color16(16383, 0, 0, 32767)>>),
      Image(0, 0, <<>>) }
ParsedTexts ==
    { Styled(<<>>),
      Styled(<<Block(<<"a">>, NilCol), Block(<<NewLine>>, NilCol)>>),
      Styled(<<Block(<<Space, Space>>, NilCol), Block(<<"a", NewLine, "a">>, NilCol)>>),
      [nil |-> FALSE, len |-> maxStyledElements + 1, blocks |-> <<>>] }

(***************************************************************************)
(* ProcessImageToSVG, one action per stage.                                *)
(***************************************************************************)
Validate ==
    /\ pc = "validate"
    /\ executed' = Append(executed, "validate")
    /\ LET e == validateInput(imageData, opts)
       IN  IF e # ""
           THEN /\ ret' = Failure(e)
                /\ pc' = "done"
                /\ UNCHANGED opts
           ELSE /\ opts' = setDefaults(opts)
                /\ pc' = "decode"
                /\ UNCHANGED ret
    /\ UNCHANGED <<imageData, img, processedImg, options, asciiString,
                   styledText, lines, canvas, svgString>>
    /\ UNCHANGED poolVars

\* decodeImage: image.Decode fails, or yields nil, or an image.
Decode ==
    /\ pc = "decode"
    /\ executed' = Append(executed, "decode")
    /\ \E decodeErr \in BOOLEAN, decoded \in DecodedImages \cup {NilImage} :
         IF decodeErr
         THEN ret' = Failure("failed to decode image") /\ pc' = "done" /\ UNCHANGED img
         ELSE IF decoded.nil
         THEN ret' = Failure("decoded image is nil") /\ pc' = "done" /\ UNCHANGED img
         ELSE IF decoded.w <= 0 \/ decoded.h <= 0
         THEN ret' = Failure("invalid image dimensions") /\ pc' = "done" /\ UNCHANGED img
         ELSE img' = decoded /\ pc' = "transform" /\ UNCHANGED ret
    /\ UNCHANGED <<imageData, opts, processedImg, options, asciiString,
                   styledText, lines, canvas, svgString>>
    /\ UNCHANGED poolVars

ProcessImage ==
    /\ pc = "transform"
    /\ executed' = Append(executed, "transform")
    /\ LET resized == img.w > maxProcessDimension \/ img.h > maxProcessDimension
           dims    == ResizeDims(img.w, img.h)
           touched == resized \/ opts.Brightness # 0 \/ opts.Contrast # 0
                      \/ opts.Sharpen # 0
       IN  \E src \in (IF touched THEN Adjusted(img.pix) ELSE {img.pix}) :
             \E out \in handleTransparency(src, opts.TransparencyColor,
                                           opts.TransparencyThreshold) :
               processedImg' = [w |-> dims.w, h |-> dims.h, pix |-> out, src |-> src]
    /\ pc' = "glyph-sample"
    /\ UNCHANGED <<imageData, opts, img, options, asciiString, styledText,
                   lines, canvas, svgString, ret>>
    /\ UNCHANGED poolVars

ConvertToASCII ==
    /\ pc = "glyph-sample"
    /\ executed' = Append(executed, "glyph-sample")
    /\ options' = ASCIIOptions(processedImg.w, processedImg.h, opts.TargetWidth)
    /\ \E n \in ASCIILengths :
         IF n = 0
         THEN /\ ret' = Failure("failed to convert image to ASCII")
              /\ pc' = "done" /\ UNCHANGED asciiString
         ELSE IF n > MaxASCIIChars
         THEN /\ ret' = Failure("ASCII output is too large")
              /\ pc' = "done" /\ UNCHANGED asciiString
         ELSE asciiString' = n /\ pc' = "run-extract" /\ UNCHANGED ret
    /\ UNCHANGED <<imageData, opts, img, processedImg, styledText, lines,
                   canvas, svgString>>
    /\ UNCHANGED poolVars

\* parseANSI: ansi.Parse fails, or yields nil, or blocks.
ParseANSI ==
    /\ pc = "run-extract"
    /\ executed' = Append(executed, "run-extract")
    /\ \E parseErr \in BOOLEAN, parsed \in ParsedTexts \cup {NilStyled} :
         IF asciiString = 0
         THEN ret' = Failure("ASCII string is empty") /\ pc' = "done"
              /\ UNCHANGED styledText
         ELSE IF parseErr
         THEN ret' = Failure("failed to parse ANSI string") /\ pc' = "done"
              /\ UNCHANGED styledText
         ELSE IF parsed.nil
         THEN ret' = Failure("styled text is nil after parsing") /\ pc' = "done"
              /\ UNCHANGED styledText
         ELSE IF parsed.len > maxStyledElements
         THEN ret' = Failure("too many styled text elements") /\ pc' = "done"
              /\ UNCHANGED styledText
         ELSE styledText' = parsed /\ pc' = "render" /\ UNCHANGED ret
    /\ UNCHANGED <<imageData, opts, img, processedImg, options, asciiString,
                   lines, canvas, svgString>>
    /\ UNCHANGED poolVars

RenderToSVG ==
    /\ pc = "render"
    /\ executed' = Append(executed, "render")
    /\ IF styledText.nil
       THEN /\ ret' = Failure("styledText is nil")
            /\ pc' = "done"
            /\ UNCHANGED <<lines, canvas, svgString, bufferPool, buffers>>
       ELSE /\ lines' = splitStyledTextByLine(styledText.blocks)
            /\ canvas' = renderDocument(styledText.blocks, opts.BackgroundColor)
            /\ \E got \in PoolGet(bufferPool, buffers), n \in SVGLengths :
                 LET buffer  == got[1]
                     written == BufferWrite(BufferReset(got[3], buffer), buffer, n)
                 IN  /\ svgString' = written[buffer].len
                     /\ buffers' = written
                     /\ bufferPool' = PoolPut(got[2], buffer)
            /\ pc' = "output-size check"
            /\ UNCHANGED ret
    /\ UNCHANGED <<imageData, opts, img, processedImg, options, asciiString,
                   styledText, runs>>

\* The size check handing the oversized document back with its error.
CheckOutputSize_KeepsDocument ==
    /\ pc = "output-size check"
    /\ executed' = Append(executed, "output-size check")
    /\ ret' = IF svgString > MaxOutputSize
              THEN [returned |-> TRUE, svg |-> svgString,
                    err |-> "output SVG is too large"]
              ELSE Success(svgString)
    /\ pc' = "done"
    /\ UNCHANGED <<imageData, opts, img, processedImg, options, asciiString,
                   styledText, lines, canvas, svgString>>
    /\ UNCHANGED poolVars

CheckOutputSize ==
    /\ pc = "output-size check"
    /\ executed' = Append(executed, "output-size check")
    /\ ret' = IF svgString > MaxOutputSize
              THEN Failure("output SVG is too large")
              ELSE Success(svgString)
    /\ pc' = "done"
    /\ UNCHANGED <<imageData, opts, img, processedImg, options, asciiString,
                   styledText, lines, canvas, svgString>>
    /\ UNCHANGED poolVars

(***************************************************************************)
(* Specifications.                                                         *)
(***************************************************************************)
\* Nothing after the given stage has run yet.
NotRendered ==
    /\ lines = <<>>
    /\ canvas = NoCanvas
    /\ svgString = 0
    /\ ret = NotReturned
    /\ PoolIdle

NotConverted ==
    /\ options = NoOptions
    /\ asciiString = 0
    /\ styledText = NilStyled
    /\ NotRendered

Fresh ==
    /\ img = NilImage
    /\ processedImg = NoProcessed
    /\ NotConverted
\* A call of ProcessImageToSVG.
Init ==
    /\ pc = "validate"
    /\ executed = <<>>
    /\ imageData \in {0, 1, MaxImageSize, MaxImageSize + 1, 60 * 1024 * 1024}
    /\ opts \in [TargetWidth : {0 - 1, 0, 1, 1000},
                 Brightness : {0, 10}, Contrast : {0}, Sharpen : {0},
                 BackgroundColor : {<<>>, <<"#", "1", "2", "3">>},
                 TransparencyColor : {<<>>, <<"#", "a", "b", "c">>},
                 TransparencyThreshold : RawThresholds]
    /\ Fresh

Next ==
    \/ Validate
    \/ Decode
    \/ ProcessImage
    \/ ConvertToASCII
    \/ ParseANSI
    \/ RenderToSVG
    \/ CheckOutputSize

Spec == Init /\ [][Next]_vars

\* The options of a call that passed validation and setDefaults.
BaseOpts ==
    [TargetWidth |-> 100, Brightness |-> 0, Contrast |-> 0, Sharpen |-> 0,
     BackgroundColor |-> Black,
     TransparencyColor |-> <<"#", "F", "F", "F", "F", "F", "F">>,
     TransparencyThreshold |-> <<0, 1>>]

\* The transformer, entered with any decoded image of one row, any
\* transparency colour and any threshold in [0, 1].
InitTransparency ==
    /\ pc = "transform"
    /\ executed = SubSeq(Stages, 1, 2)
    /\ imageData = 1
    /\ opts \in {[BaseOpts EXCEPT !.TransparencyColor = c,
                                  !.TransparencyThreshold = t] :
                   c \in ColorStrings, t \in Thresholds}
    /\ img \in {Image(Len(p), 1, p) : p \in PixelSeqs}
    /\ processedImg = NoProcessed
    /\ NotConverted

SpecTransparency == InitTransparency /\ [][ProcessImage]_vars

\* The glyph sampler, entered with a transformed image of any sampled
\* dimensions (at most the processing ceiling) and any positive target width.
Opaque == Color16(FullAlpha, 0, 0, FullAlpha)

InitASCII ==
    /\ pc = "glyph-sample"
    /\ executed = SubSeq(Stages, 1, 3)
    /\ imageData = 1
    /\ opts \in {[BaseOpts EXCEPT !.TargetWidth = tw] : tw \in TargetWidths}
    /\ \E w \in Dimensions, h \in Dimensions :
         /\ img = Image(w, h, <<Opaque>>)
         /\ processedImg = [w |-> w, h |-> h, pix |-> <<SetRGBA(Opaque)>>,
                            src |-> <<Opaque>>]
    /\ NotConverted

SpecASCII == InitASCII /\ [][ConvertToASCII]_vars

\* The renderer, entered with any stream of at most MaxBlocks blocks.
InitRender ==
    /\ pc = "render"
    /\ executed = SubSeq(Stages, 1, 5)
    /\ imageData = 1
    /\ opts = BaseOpts
    /\ img = Image(1, 1, <<Opaque>>)
    /\ processedImg = [w |-> 1, h |-> 1, pix |-> <<SetRGBA(Opaque)>>,
                       src |-> <<Opaque>>]
    /\ options = ASCIIOptions(1, 1, BaseOpts.TargetWidth)
    /\ asciiString = 1
    /\ styledText \in StyledTexts
    /\ NotRendered

SpecRender == InitRender /\ [][RenderToSVG]_vars

\* Validation and normalisation, entered with any options record.
InitDefaults ==
    /\ pc = "validate"
    /\ executed = <<>>
    /\ imageData = 1
    /\ opts \in [TargetWidth : {0, 1, 1000},
                 Brightness : {0 - 10, 0, 10}, Contrast : {0, 5}, Sharpen : {0, 1},
                 BackgroundColor : {<<>>} \cup ColorStrings,
                 TransparencyColor : {<<>>} \cup ColorStrings,
                 TransparencyThreshold : RawThresholds \cup Thresholds]
    /\ Fresh

SpecDefaults == InitDefaults /\ [][Validate]_vars

(***************************************************************************)
(* Concurrent calls: wrapperFunc starts a goroutine per call, and each     *)
(* reaches renderToSVG; the statements of renderToSVG interleave.          *)
(***************************************************************************)
\* go func() { ... renderToSVG(styledText, ...) }: the call is entered.
Call(r) ==
    /\ runs[r].pc = "idle"
    /\ \E isNil \in BOOLEAN :
         runs' = [runs EXCEPT ![r].nilInput = isNil, ![r].pc = "check"]
    /\ UNCHANGED <<bufferPool, buffers>>

\* if styledText == nil { return "", ... }
CheckNil(r) ==
    /\ runs[r].pc = "check"
    /\ runs' = IF runs[r].nilInput
               THEN [runs EXCEPT ![r].err = "styledText is nil", ![r].pc = "done"]
               ELSE [runs EXCEPT ![r].pc = "get"]
    /\ UNCHANGED <<bufferPool, buffers>>

\* buffer := bufferPool.Get().(*bytes.Buffer)
Get(r) ==
    /\ runs[r].pc = "get"
    /\ \E got \in PoolGet(bufferPool, buffers) :
         /\ runs' = [runs EXCEPT ![r].buffer = got[1], ![r].gets = @ + 1,
                                 ![r].found = got[3][got[1]].len,
                                 ![r].pc = "reset"]
         /\ bufferPool' = got[2]
         /\ buffers' = got[3]

\* buffer.Reset()
Reset(r) ==
    /\ runs[r].pc = "reset"
    /\ buffers' = BufferReset(buffers, runs[r].buffer)
    /\ runs' = [runs EXCEPT ![r].pc = "defer"]
    /\ UNCHANGED bufferPool

\* defer bufferPool.Put(buffer)
Defer(r) ==
    /\ runs[r].pc = "defer"
    /\ runs' = [runs EXCEPT ![r].deferred = TRUE, ![r].pc = "write"]
    /\ UNCHANGED <<bufferPool, buffers>>

\* canvas.Start ... canvas.End(): the document is appended to the buffer.
Write(r) ==
    /\ runs[r].pc = "write"
    /\ \E n \in SVGLengths :
         /\ buffers' = BufferWrite(buffers, runs[r].buffer, n)
         /\ runs' = [runs EXCEPT ![r].written = n, ![r].pc = "string"]
    /\ UNCHANGED bufferPool

\* A write panics (bytes.Buffer panics with ErrTooLarge): the function
\* unwinds through its deferred call.
WritePanics(r) ==
    /\ runs[r].pc = "write"
    /\ runs' = [runs EXCEPT ![r].err = "panic", ![r].pc = "exit"]
    /\ UNCHANGED <<bufferPool, buffers>>

\* return buffer.String(), nil: the result is evaluated
String(r) ==
    /\ runs[r].pc = "string"
    /\ runs' = [runs EXCEPT ![r].out = buffers[runs[r].buffer].len, ![r].pc = "exit"]
    /\ UNCHANGED <<bufferPool, buffers>>

\* ... and the deferred bufferPool.Put(buffer) runs as the function exits.
Exit(r) ==
    /\ runs[r].pc = "exit"
    /\ IF runs[r].deferred
       THEN /\ bufferPool' = PoolPut(bufferPool, runs[r].buffer)
            /\ runs' = [runs EXCEPT ![r].puts = @ + 1, ![r].buffer = NoBuffer,
                                    ![r].pc = "done"]
       ELSE /\ runs' = [runs EXCEPT ![r].pc = "done"]
            /\ UNCHANGED bufferPool
    /\ UNCHANGED buffers

\* The garbage collector empties the pool of a buffer nobody holds.
Collect ==
    /\ \E b \in bufferPool :
         /\ bufferPool' = bufferPool \ {b}
         /\ buffers' = [buffers EXCEPT ![b] = Unallocated]
    /\ UNCHANGED runs

InitPool ==
    /\ pc = "validate"
    /\ executed = <<>>
    /\ imageData = 1
    /\ opts = BaseOpts
    /\ Fresh

NextPool ==
    \/ \E r \in Runs : Call(r) /\ UNCHANGED pipelineVars
    \/ \E r \in Runs : CheckNil(r) /\ UNCHANGED pipelineVars
    \/ \E r \in Runs : Get(r) /\ UNCHANGED pipelineVars
    \/ \E r \in Runs : Reset(r) /\ UNCHANGED pipelineVars
    \/ \E r \in Runs : Defer(r) /\ UNCHANGED pipelineVars
    \/ \E r \in Runs : Write(r) /\ UNCHANGED pipelineVars
    \/ \E r \in Runs : WritePanics(r) /\ UNCHANGED pipelineVars
    \/ \E r \in Runs : String(r) /\ UNCHANGED pipelineVars
    \/ \E r \in Runs : Exit(r) /\ UNCHANGED pipelineVars
    \/ Collect /\ UNCHANGED pipelineVars

SpecPool == InitPool /\ [][NextPool]_vars

(***************************************************************************)
(* Claims about ProcessImageToSVG as a whole (Spec).                       *)
(***************************************************************************)
Validated == pc # "validate"
DecodeAttempted == \E i \in 1..Len(executed) : executed[i] = "decode"
ValidationErrors == {"image data is empty", "image data is too large",
                     "target width must be positive"}

\* What C1 says of the two length checks, and of an input of exactly 50 MiB.
C1_LengthChecks ==
    /\ imageData = 0 =>
         /\ ret = Failure("image data is empty")
         /\ ~DecodeAttempted
    /\ imageData > MaxImageSize =>
         /\ ret = Failure("image data is too large")
         /\ ~DecodeAttempted
    /\ (imageData = MaxImageSize /\ opts.TargetWidth > 0) =>
         /\ ret.err \notin ValidationErrors
         /\ pc = "done" => DecodeAttempted

\* C1 as stated: each of the three conditions, on its own, decides the
\* error: empty input, input over 50 MiB, targetWidth <= 0; decode is then
\* never attempted; exactly 50 MiB with a positive width passes validation.
C1_AsStated ==
    Validated =>
        /\ C1_LengthChecks
        /\ opts.TargetWidth <= 0 =>
             /\ ret = Failure("target width must be positive")
             /\ ~DecodeAttempted

\* C1 (amended): validation rejects before any decode attempt; the length
\* checks come first, so targetWidth <= 0 yields the invalid-option error
\* only for a non-empty input of at most 50 MiB, and with an empty or
\* oversized input the length error is the one returned.
C1_ValidationBeforeDecode ==
    Validated =>
        /\ C1_LengthChecks
        /\ opts.TargetWidth <= 0 =>
             /\ ~DecodeAttempted
             /\ ret.returned /\ ret.err \in ValidationErrors
             /\ (imageData > 0 /\ imageData <= MaxImageSize) =>
                  ret = Failure("target width must be positive")

C1_Witness ==
    /\ pc = "done"
    /\ imageData = MaxImageSize
    /\ opts.TargetWidth <= 0
    /\ ret = Failure("target width must be positive")
    /\ executed = <<"validate">>

IsPrefix(s, t) == Len(s) <= Len(t) /\ \A i \in 1..Len(s) : s[i] = t[i]

\* C2: the stages run in the fixed order; a failure ends the call at once
\* (nothing is enabled after the return, and a failed call has entered no
\* stage after the failing one); the call returns either a non-empty
\* document and no error, after all seven stages, or the empty string and
\* an error, never both.
C2_FailFast ==
    /\ IsPrefix(executed, Stages)
    /\ ret.returned <=> pc = "done"
    /\ ret.returned => ~ENABLED Next
    /\ ~ret.returned => ret.err = "" /\ ret.svg = 0
    /\ ret.returned =>
         \/ ret.svg > 0 /\ ret.err = "" /\ executed = Stages
         \/ ret.svg = 0 /\ ret.err # ""

C2_Witness ==
    /\ pc = "done"
    /\ ret = Failure("failed to convert image to ASCII")
    /\ executed = SubSeq(Stages, 1, 4)
    /\ styledText = NilStyled /\ canvas = NoCanvas /\ svgString = 0

(***************************************************************************)
(* Claims about the transformer (SpecTransparency).                        *)
(***************************************************************************)
Transformed == pc = "glyph-sample"
Substitute == SubstituteColor(opts.TransparencyColor)
Threshold16 == (opts.TransparencyThreshold[1] * FullAlpha) \div opts.TransparencyThreshold[2]

\* c is the linear blend orig*(a/65535) + sub*(1 - a/65535) on the 8-bit
\* scale, cut to an integer: 257*65535*c <= orig*a + sub*(65535-a) and the
\* latter is at most 257*65535*(c+1), with equality only at an exact
\* integer value that the float64 product may fall short of.
IsLinearBlend(c, orig, sub, a) ==
    LET X == BlendSum(orig, sub, a)
    IN  /\ c \in 0..255
        /\ 257 * c <= X[1]
        /\ \/ X[1] < 257 * (c + 1)
           \/ X[1] = 257 * (c + 1) /\ X[2] = 0

\* An input pixel that holds 8-bit data: every channel is c * 0x101.
EightBit(p) == p.r % 257 = 0 /\ p.g % 257 = 0 /\ p.b % 257 = 0 /\ p.a % 257 = 0
Widen(p8) == Color16(p8.R * 257, p8.G * 257, p8.B * 257, p8.A * 257)

\* C3: the three-way rule, for every pixel, with a its 16-bit alpha and
\* T = floor(threshold * 65535): a < T gives exactly the substitute colour;
\* T <= a < 65535 gives the linear blend per channel (on the 8-bit scale of
\* the result image); a = 65535 gives the input pixel (its 8-bit value, and
\* exactly the input when the input holds 8-bit data).  With threshold 0
\* the substitute branch is never taken; with threshold 1 every pixel that
\* is not fully opaque becomes the substitute.
C3_ThreeWayRule ==
    Transformed =>
      \A i \in 1..Len(processedImg.src) :
        LET p   == processedImg.src[i]
            out == processedImg.pix[i]
        IN  /\ p.a < Threshold16 =>
                 /\ Widen(out) = Substitute
                 /\ opts.TransparencyThreshold # <<0, 1>>
            /\ (Threshold16 <= p.a /\ p.a < FullAlpha) =>
                 /\ IsLinearBlend(out.R, p.r, Substitute.r, p.a)
                 /\ IsLinearBlend(out.G, p.g, Substitute.g, p.a)
                 /\ IsLinearBlend(out.B, p.b, Substitute.b, p.a)
                 /\ opts.TransparencyThreshold # <<1, 1>>
            /\ p.a = FullAlpha =>
                 /\ out = Pixel8(p.r \div 256, p.g \div 256, p.b \div 256, 255)
                 /\ EightBit(p) => Widen(out) = p

C3_Witness ==
    /\ Transformed
    /\ Len(processedImg.src) = 2
    /\ processedImg.src[1].a < Threshold16
    /\ Widen(processedImg.pix[1]) = Substitute
    /\ Threshold16 <= processedImg.src[2].a
    /\ processedImg.src[2].a < FullAlpha
    /\ processedImg.src[2].r > 0
    /\ Widen(processedImg.pix[2]) # Substitute

\* C4: every pixel of the transformer's result is fully opaque, whatever the
\* image, the threshold and the transparency-colour string.
C4_ResultOpaque ==
    Transformed =>
      /\ Len(processedImg.pix) = Len(img.pix)
      /\ \A i \in 1..Len(processedImg.pix) : processedImg.pix[i].A = 255

C4_Witness ==
    /\ Transformed
    /\ parseHexColor(opts.TransparencyColor).nil
    /\ Len(processedImg.src) = 2
    /\ processedImg.src[1].a = 0
    /\ processedImg.src[2].a \notin {0, FullAlpha}
    /\ Threshold16 <= processedImg.src[2].a
    /\ \A i \in 1..2 : processedImg.pix[i].A = 255

(***************************************************************************)
(* Claims about the glyph-grid dimensions (SpecASCII).                     *)
(***************************************************************************)
Converted == pc # "glyph-sample"
RoundDiv(n, d) == (2 * n + d) \div (2 * d)

\* C5 as stated: the pre-cap target height is round(targetWidth * h / w),
\* rounding to nearest, floored at 1.
C5_PreCapHeightRounds ==
    Converted =>
        options.preCapHeight =
            Max2(1, RoundDiv(opts.TargetWidth * processedImg.h, processedImg.w))

\* h is v * 500 / by cut to an integer: the floor, or one less when the
\* value is an exact integer that the float64 product falls short of.
IsScaled(h, v, by) ==
    /\ h * by <= v * MaxASCIIDimension
    /\ v * MaxASCIIDimension <= (h + 1) * by

ScaledCandidates(v, by) ==
    LET q == (v * MaxASCIIDimension) \div by IN {q, Max2(0, q - 1)}

\* C6 as stated: for every image and every targetWidth above the cap, the
\* final width is exactly 500 and the final height is the pre-cap height
\* scaled by 500/targetWidth.
C6_WidthAlwaysAtCap ==
    (Converted /\ opts.TargetWidth > MaxASCIIDimension) =>
        /\ options.FixedWidth = MaxASCIIDimension
        /\ IsScaled(options.FixedHeight, options.preCapHeight, opts.TargetWidth)

\* C6 (amended): for targetWidth above the cap the width becomes 500 and
\* the height the pre-cap height scaled by 500/targetWidth (cut to an
\* integer); these are the final dimensions when that height is at most
\* 500.  When it is still above 500 (images much taller than wide) the
\* final height is 500 and the final width is 500 scaled by 500/height,
\* which is below 500.
C6_CapScaling ==
    (Converted /\ opts.TargetWidth > MaxASCIIDimension) =>
        \E sh \in ScaledCandidates(options.preCapHeight, opts.TargetWidth) :
            /\ IsScaled(sh, options.preCapHeight, opts.TargetWidth)
            /\ IF sh <= MaxASCIIDimension
               THEN /\ options.FixedWidth = MaxASCIIDimension
                    /\ options.FixedHeight = sh
               ELSE /\ options.FixedHeight = MaxASCIIDimension
                    /\ options.FixedWidth < MaxASCIIDimension
                    /\ IsScaled(options.FixedWidth, MaxASCIIDimension, sh)

C6_Witness ==
    /\ Converted
    /\ opts.TargetWidth = 1000
    /\ processedImg.w = 200 /\ processedImg.h = 100
    /\ options = [FixedWidth |-> 500, FixedHeight |-> 250, preCapHeight |-> 500]

\* C7: after the cap adjustment FixedWidth and FixedHeight both lie in
\* 1..500.
C7_DimensionsInRange ==
    Converted =>
        /\ options.FixedWidth \in 1..MaxASCIIDimension
        /\ options.FixedHeight \in 1..MaxASCIIDimension

(***************************************************************************)
(* Claims about the run extractor and the renderer (SpecRender).           *)
(***************************************************************************)
Rendered == pc = "output-size check"

SetMax(S) == CHOOSE m \in S : \A x \in S : x <= m

\* The summed text length of the runs of a line.
TextLength(line) == SumSeq([j \in 1..Len(line) |-> Len(line[j].Label)])
CellWidth == charWidth + paddingLeft + paddingRight
CellHeight == lineHeight + paddingTop + paddingBottom

\* C8: the canvas width is (the largest summed text length of a line) *
\* charWidth + paddingLeft + paddingRight when positive, and charWidth +
\* paddingLeft + paddingRight otherwise; the height is lineCount *
\* lineHeight + paddingTop + paddingBottom when positive, and lineHeight +
\* paddingTop + paddingBottom otherwise; both are strictly positive and at
\* least one glyph cell plus padding.
C8_CanvasDimensions ==
    Rendered =>
        LET longest == SetMax({0} \cup {TextLength(lines[i]) : i \in 1..Len(lines)})
            width   == longest * charWidth + paddingLeft + paddingRight
            height  == Len(lines) * lineHeight + paddingTop + paddingBottom
        IN  /\ canvas.width = IF width > 0 THEN width ELSE CellWidth
            /\ canvas.height = IF height > 0 THEN height ELSE CellHeight
            /\ canvas.width > 0 /\ canvas.height > 0
            /\ canvas.width >= CellWidth /\ canvas.height >= CellHeight

C8_Witness ==
    /\ Rendered
    /\ styledText.blocks = <<Block(<<NewLine, NewLine>>, NilCol)>>
    /\ lines = << <<>>, <<>> >>
    /\ canvas.width = CellWidth
    /\ canvas.height = 2 * lineHeight + paddingTop + paddingBottom

\* The characters of a sequence of blocks, each with the foreground colour
\* of its block, in order; nil blocks hold none.
RECURSIVE Cells(_)
Cells(blocks) ==
    IF blocks = <<>> THEN <<>>
    ELSE LET b == Head(blocks)
         IN  (IF b.nil THEN <<>>
              ELSE [k \in 1..Len(b.Label) |-> <<b.Label[k], b.FgCol>>])
             \o Cells(Tail(blocks))

NotNewLine(cell) == cell[1] # NewLine

\* The text of the lines joined with newlines.
RECURSIVE JoinLines(_)
JoinLines(ls) ==
    IF ls = <<>> THEN <<>>
    ELSE LET text == Flatten([j \in 1..Len(Head(ls)) |-> Head(ls)[j].Label])
         IN  IF Len(ls) = 1 THEN text
             ELSE text \o <<NewLine>> \o JoinLines(Tail(ls))

InputText == Flatten([k \in 1..Len(Cells(styledText.blocks)) |->
                        <<Cells(styledText.blocks)[k][1]>>])

\* C9: no run of an output line contains a newline or has empty text; the
\* characters of the runs, each with its run's foreground colour, are the
\* non-newline characters of the input blocks, each with its block's
\* colour, in the same order; and the run texts of each line, the lines
\* joined with newlines, give back the concatenated block labels up to one
\* trailing newline.
C9_RunsPreserveText ==
    Rendered =>
        /\ \A i \in 1..Len(lines) : \A j \in 1..Len(lines[i]) :
              /\ lines[i][j].Label # <<>>
              /\ \A k \in 1..Len(lines[i][j].Label) : lines[i][j].Label[k] # NewLine
              /\ ~lines[i][j].nil
        /\ Cells(Flatten(lines)) = SelectSeq(Cells(styledText.blocks), NotNewLine)
        /\ \/ JoinLines(lines) = InputText
           \/ JoinLines(lines) \o <<NewLine>> = InputText

C9_Witness ==
    /\ Rendered
    /\ Len(styledText.blocks) = 2
    /\ styledText.blocks[1].Label = <<"a", NewLine>>
    /\ styledText.blocks[2].Label = <<"a", NewLine>>
    /\ styledText.blocks[1].FgCol # styledText.blocks[2].FgCol
    /\ Len(lines) = 2
    /\ lines[1] = <<Block(<<"a">>, styledText.blocks[1].FgCol)>>
    /\ lines[2] = <<Block(<<"a">>, styledText.blocks[2].FgCol)>>

IsText(e) == e.kind = "text"
OnlySpaces(text) == text # <<>> /\ \A k \in 1..Len(text) : text[k] = Space

\* C10: a run whose text is only spaces, of any length >= 1, emits no text
\* primitive; text primitives come only from runs with a non-space
\* character.
C10_SpaceRunsNotDrawn ==
    Rendered =>
        \A k \in 1..Len(canvas.elems) :
            IsText(canvas.elems[k]) => ~OnlySpaces(canvas.elems[k].text)

(***************************************************************************)
(* Claims about the scratch-buffer pool (SpecPool).                        *)
(***************************************************************************)
Holders(b) == {r \in Runs : runs[r].buffer = b}
Finished(r) == runs[r].pc = "done"

\* C11: under every interleaving of the calls, a buffer is held by at most
\* one run at a time and is not in the pool while held; it is empty when
\* its run starts writing, so that the run returns exactly what it wrote;
\* a finished run has returned the buffer it acquired exactly once (one Get,
\* one Put) and holds none, and a run failing on nil input acquired none;
\* so once all runs have finished no buffer is held.
C11_BufferDiscipline ==
    /\ \A b \in BufferIds : Cardinality(Holders(b)) <= 1
    /\ \A r \in Runs :
         /\ runs[r].buffer # NoBuffer =>
               /\ runs[r].buffer \notin bufferPool
               /\ buffers[runs[r].buffer].allocated
         /\ runs[r].pc = "write" => buffers[runs[r].buffer].len = 0
         /\ (Finished(r) /\ runs[r].err = "") =>
               runs[r].out = runs[r].written /\ runs[r].written > 0
         /\ Finished(r) =>
               /\ runs[r].buffer = NoBuffer
               /\ runs[r].puts = runs[r].gets
               /\ runs[r].gets = IF runs[r].nilInput THEN 0 ELSE 1
    /\ (\A r \in Runs : Finished(r)) => \A b \in BufferIds : Holders(b) = {}

\* The second run acquired the buffer with the first run's document still
\* in it, and has returned its own document and the buffer.
C11_Witness ==
    /\ Finished(1) /\ Finished(2)
    /\ runs[1].out = MaxOutputSize
    /\ runs[2].found = MaxOutputSize
    /\ runs[2].out = 1
    /\ runs[2].puts = 1
    /\ bufferPool = {1}
    /\ buffers[1].len = 1

(***************************************************************************)
(* Claims about the options normaliser (SpecDefaults).                     *)
(***************************************************************************)
\* t <= u for finite values <<num, den>>.
FiniteLeq(t, u) == t[2] > 0 /\ u[2] > 0 /\ t[1] * u[2] <= u[1] * t[2]
InUnitInterval(t) == FiniteLeq(<<0, 1>>, t) /\ FiniteLeq(t, <<1, 1>>)

\* C12: setDefaults leaves the threshold clamped into [0, 1] (below 0 gives
\* 0, above 1 gives 1, a value in [0, 1] is kept), replaces an empty
\* background colour by #000000 and an empty transparency colour by
\* #FFFFFF, leaves non-empty colours, targetWidth, brightness, contrast and
\* sharpen unchanged, and no request is rejected for its threshold.
C12_DefaultsPostcondition ==
    [][Validate =>
         /\ pc' = "done" <=> (opts.TargetWidth <= 0)
         /\ pc' = "decode" =>
              /\ InUnitInterval(opts'.TransparencyThreshold)
              /\ InUnitInterval(opts.TransparencyThreshold) =>
                    opts'.TransparencyThreshold = opts.TransparencyThreshold
              /\ opts.TransparencyThreshold[1] < 0 =>
                    opts'.TransparencyThreshold = <<0, 1>>
              /\ opts.TransparencyThreshold[1] > opts.TransparencyThreshold[2] =>
                    opts'.TransparencyThreshold = <<1, 1>>
              /\ opts'.BackgroundColor =
                    IF opts.BackgroundColor = <<>>
                    THEN <<"#", "0", "0", "0", "0", "0", "0">>
                    ELSE opts.BackgroundColor
              /\ opts'.TransparencyColor =
                    IF opts.TransparencyColor = <<>>
                    THEN <<"#", "F", "F", "F", "F", "F", "F">>
                    ELSE opts.TransparencyColor
              /\ opts'.TargetWidth = opts.TargetWidth
              /\ opts'.Brightness = opts.Brightness
              /\ opts'.Contrast = opts.Contrast
              /\ opts'.Sharpen = opts.Sharpen]_vars

(***************************************************************************)
(* Claims about colour resolution (SpecTransparency).                      *)
(***************************************************************************)
\* The string is 3 or 6 hexadecimal digits after one optional leading '#'.
IsHexColorString(str) ==
    LET digits == IF Len(str) > 0 /\ str[1] = "#" THEN Tail(str) ELSE str
    IN  /\ Len(digits) \in {3, 6}
        /\ \A i \in 1..Len(digits) : IsHexDigit(digits[i])

\* The colour of such a string, a 3-digit form read with each digit doubled.
HexColorOf(str) ==
    LET digits == IF Len(str) > 0 /\ str[1] = "#" THEN Tail(str) ELSE str
        six    == IF Len(digits) = 3
                  THEN <<digits[1], digits[1], digits[2], digits[2],
                         digits[3], digits[3]>>
                  ELSE digits
        byte(i) == 16 * HexValue(six[i]) + HexValue(six[i + 1])
    IN  Color16(257 * byte(1), 257 * byte(3), 257 * byte(5), FullAlpha)

\* C13: parseHexColor yields a colour exactly for the strings of 3 or 6
\* hexadecimal digits after one optional '#' (a 3-digit form as the 6-digit
\* form with each digit doubled); for every other string, one with a sign
\* character included, there is no colour and compositing substitutes white.
C13_HexColorResolution ==
    Transformed =>
        /\ parseHexColor(opts.TransparencyColor).nil
              <=> ~IsHexColorString(opts.TransparencyColor)
        /\ \A i \in 1..Len(processedImg.src) :
              processedImg.src[i].a < Threshold16 =>
                  Widen(processedImg.pix[i]) =
                      IF IsHexColorString(opts.TransparencyColor)
                      THEN HexColorOf(opts.TransparencyColor)
                      ELSE White

(***************************************************************************)
(* Claims about line counting and layout (SpecRender).                     *)
(***************************************************************************)
\* The text between the (i-1)-th and the i-th newline of text, the last
\* segment running to the end.
NewLinePositions(text) == {k \in 1..Len(text) : text[k] = NewLine}
Segment(text, i) ==
    LET before == {k \in NewLinePositions(text) :
                     Cardinality({m \in NewLinePositions(text) : m < k}) = i - 2}
        after  == {k \in NewLinePositions(text) :
                     Cardinality({m \in NewLinePositions(text) : m < k}) = i - 1}
        from   == IF before = {} THEN 1 ELSE SetMax(before) + 1
        to     == IF after = {} THEN Len(text) ELSE SetMax(after) - 1
    IN  SubSeq(text, from, to)
LineText(line) == Flatten([j \in 1..Len(line) |-> line[j].Label])
HasGlyph(label) == \E k \in 1..Len(label) : label[k] # Space

\* C14: the number of lines is the number of newlines of the stream, plus
\* one if non-empty text follows the last newline; line i holds the text of
\* the i-th segment, so the empty lines between consecutive newlines are
\* kept; every line advances the vertical position by lineHeight (a run of
\* line i is drawn at paddingTop + (i-1) * lineHeight) and counts toward the
\* canvas height.
C14_LineCount ==
    Rendered =>
        LET newlines == Cardinality(NewLinePositions(InputText))
            pending  == Segment(InputText, newlines + 1) # <<>>
        IN  /\ Len(lines) = newlines + (IF pending THEN 1 ELSE 0)
            /\ \A i \in 1..Len(lines) :
                  /\ LineText(lines[i]) = Segment(InputText, i)
                  /\ \A j \in 1..Len(lines[i]) :
                        HasGlyph(lines[i][j].Label) =>
                            \E k \in 1..Len(canvas.elems) :
                                /\ IsText(canvas.elems[k])
                                /\ canvas.elems[k].text = lines[i][j].Label
                                /\ canvas.elems[k].y = paddingTop + (i - 1) * lineHeight
            /\ \A k \in 1..Len(canvas.elems) :
                  IsText(canvas.elems[k]) =>
                      \E i \in 1..Len(lines) :
                          canvas.elems[k].y = paddingTop + (i - 1) * lineHeight
            /\ Len(lines) >= 1 =>
                  canvas.height = Len(lines) * lineHeight + paddingTop + paddingBottom

C14_Witness ==
    /\ Rendered
    /\ InputText = <<"a", NewLine, NewLine, "a">>
    /\ Len(lines) = 3
    /\ lines[2] = <<>>
    /\ canvas.height = 3 * lineHeight + paddingTop + paddingBottom
    /\ \E k \in 1..Len(canvas.elems) :
          IsText(canvas.elems[k]) /\ canvas.elems[k].y = paddingTop + 2 * lineHeight

\* The primitive the claim gives run j of line i (1-based here).
PrimitiveOf(i, j) ==
    LET run       == lines[i][j]
        preceding == SumSeq([m \in 1..(j - 1) |-> Len(lines[i][m].Label)])
    IN  Text(paddingLeft + charWidth * preceding,
             paddingTop + (i - 1) * lineHeight,
             run.Label,
             IF run.FgCol.nil \/ run.FgCol.Hex = <<>>
             THEN <<"#", "F", "F", "F", "F", "F", "F">>
             ELSE run.FgCol.Hex)

\* The primitives of all runs, line by line and run by run.
RECURSIVE PrimitivesFrom(_)
PrimitivesFrom(i) ==
    IF i > Len(lines) THEN <<>>
    ELSE [j \in 1..Len(lines[i]) |-> PrimitiveOf(i, j)] \o PrimitivesFrom(i + 1)

\* sub is full with some elements left out, the order kept.
RECURSIVE IsSubsequence(_, _)
IsSubsequence(sub, full) ==
    IF sub = <<>> THEN TRUE
    ELSE IF full = <<>> THEN FALSE
    ELSE IF Head(sub) = Head(full) THEN IsSubsequence(Tail(sub), Tail(full))
    ELSE IsSubsequence(sub, Tail(full))

DrawsGlyph(e) == HasGlyph(e.text)

\* C15: the document starts with the background rectangle (0, 0, width,
\* height, backgroundColor), followed by text primitives only, in line
\* order and run order; each is the primitive of its run, at y = paddingTop
\* + i * lineHeight and x = paddingLeft + charWidth * (text length of the
\* runs before it in the line, drawn or not), with the run's text and its
\* foreground colour, or #FFFFFF without one; every run with a glyph has
\* its primitive.
C15_RenderOrder ==
    Rendered =>
        /\ Len(canvas.elems) >= 1
        /\ canvas.elems[1] =
               Rect(0, 0, canvas.width, canvas.height, opts.BackgroundColor)
        /\ \A k \in 2..Len(canvas.elems) : IsText(canvas.elems[k])
        /\ IsSubsequence(Tail(canvas.elems), PrimitivesFrom(1))
        /\ IsSubsequence(SelectSeq(PrimitivesFrom(1), DrawsGlyph), Tail(canvas.elems))

C15_Witness ==
    /\ Rendered
    /\ Len(lines) = 1
    /\ Len(lines[1]) = 2
    /\ lines[1][1].Label = <<Space>>
    /\ lines[1][2].FgCol = Col(<<>>)
    /\ opts.BackgroundColor = Black
    /\ canvas.elems =
           << Rect(0, 0, 2 * charWidth + paddingLeft + paddingRight,
                   lineHeight + paddingTop + paddingBottom, Black),
              Text(paddingLeft + charWidth, paddingTop, <<"a">>,
                   <<"#", "F", "F", "F", "F", "F", "F">>) >>

====
